---- MODULE Spec2Model ----
(***************************************************************************)
(* Progress tracking, quiz scoring and the daily study-streak ledger of    *)
(* the learning platform backend (backend/learning_plan).                  *)
(*                                                                         *)
(* The entity store is a set of tables, each a function from primary key   *)
(* to row.  Every request handler is a sequence of storage reads and       *)
(* writes; each worker runs one handler at a time, one storage operation   *)
(* per step, holding what it has read in its local record loc[w].          *)
(*                                                                         *)
(* Numbers: a percentage rounded to two decimals is kept as an integer     *)
(* number of hundredths (5000 is 50.0, 3333 is 33.33).  An unrounded       *)
(* quotient is kept as a reduced fraction [n, d].                          *)
(***************************************************************************)
EXTENDS Integers, Sequences, FiniteSets, TLC

\* ---------------------------------------------------------------- bounds

\* requests started in one behaviour
MaxOps == 3
\* lessons stored in one behaviour
MaxLessons == 2
\* questions stored in one behaviour
MaxQuestions == 2
\* plans generated in one behaviour
MaxPlans == 2
\* calendar days the clock may advance in one behaviour
MaxDays == 1
\* quizzes generated in one behaviour
MaxQuizzes == 1
\* quiz submissions accepted in one behaviour
MaxAttempts == 2
\* the days before today on which the ledgers of the streak statistics may hold a row
MaxNear == 3

\* ------------------------------------------------------------- universes

Users == {"u1", "u2"}
Workers == {1, 2}
\* minutes the generation service may give as a lesson's time estimate
Estimates == {0, 45}
\* option labels a client may submit
SubmitLabels == {"a", "B"}
\* a submitted key that is the identifier of no question
ForeignKey == "0"
\* a submitted value that is not a string (a JSON number)
NotAString == "<num>"
\* a submitted answers value that is valid JSON but not a mapping
NotAMap == [kind |-> "list"]
\* a request body without the answers key
Missing == [kind |-> "missing"]
\* a submitted answers value that is a mapping
Mapping(m) == [kind |-> "map", map |-> m]
\* correct-answer labels the generation service may return
GenLabels == {"A", "b"}

VARIABLES plans, lessons, marks, quizzes, questions, attempts, notes, streaks,
          nextId, today, pc, loc, resp, nops

db == <<plans, lessons, marks, quizzes, questions, attempts, notes, streaks, nextId>>
vars == <<plans, lessons, marks, quizzes, questions, attempts, notes, streaks,
          nextId, today, pc, loc, resp, nops>>

\* ---------------------------------------------------------- table helpers

Insert(tbl, id, row) == [i \in DOMAIN tbl \cup {id} |-> IF i = id THEN row ELSE tbl[i]]

Restrict(tbl, keep) == [i \in keep |-> tbl[i]]

Max(a, b) == IF a >= b THEN a ELSE b

\* ------------------------------------------------------- pure functions

\* round(x, 2) of x = 100 * num / den, in hundredths: the nearest hundredth,
\* a tie going to the even one (the quotients met here are exact in binary
\* whenever they are ties).
Round2BugTrunc(num, den) == (10000 * num) \div den

Round2(num, den) ==
    LET q == (10000 * num) \div den
        r == (10000 * num) % den
    IN  IF 2 * r > den THEN q + 1
        ELSE IF 2 * r < den THEN q
        ELSE IF q % 2 = 0 THEN q ELSE q + 1

RECURSIVE Gcd(_, _)
Gcd(a, b) == IF b = 0 THEN a ELSE Gcd(b, a % b)

\* a bug that keeps the value rounded to hundredths
Frac100BugRounded(num, den) ==
    LET h == Round2(num, den)
        g == Gcd(h, 100)
    IN  IF h = 0 THEN [n |-> 0, d |-> 1] ELSE [n |-> h \div g, d |-> 100 \div g]

\* the float num / den * 100 as a reduced fraction
Frac100(num, den) ==
    LET g == Gcd(100 * num, den)
    IN  IF num = 0 THEN [n |-> 0, d |-> 1] ELSE [n |-> (100 * num) \div g, d |-> den \div g]

\* str.upper() on the labels of the universe
UpperBugIdentity(s) == s

Upper(s) ==
    CASE s = "a" -> "A"
      [] s = "b" -> "B"
      [] s = "x" -> "X"
      [] OTHER -> s

\* ------------------------------------------------------------------ init

Idle == [op |-> "none"]
NoResp == [status |-> 0]

Init ==
    /\ plans = << >>
    /\ lessons = << >>
    /\ marks = << >>
    /\ quizzes = << >>
    /\ questions = << >>
    /\ attempts = << >>
    /\ notes = << >>
    /\ streaks = << >>
    /\ nextId = [plan |-> 1, lesson |-> 1, mark |-> 1, quiz |-> 1, question |-> 1,
                 attempt |-> 1, note |-> 1, streak |-> 1]
    /\ today = 1
    /\ pc = [w \in Workers |-> "idle"]
    /\ loc = [w \in Workers |-> Idle]
    /\ resp = [w \in Workers |-> NoResp]
    /\ nops = 0

\* a worker takes a new request
Accept(w) == pc[w] = "idle" /\ nops < MaxOps /\ nops' = nops + 1

\* plans and quizzes are generated before the first activity request, and are bounded
\* by the number of plans and quizzes instead
AcceptGen(w) == pc[w] = "idle" /\ nops = 0 /\ UNCHANGED nops

\* the handler returns: the response is kept, the worker's locals are dropped
Return(w, r) ==
    /\ pc' = [pc EXCEPT ![w] = "done"]
    /\ resp' = [resp EXCEPT ![w] = r]
    /\ loc' = [loc EXCEPT ![w] = Idle]

Goto(w, label, l) ==
    /\ pc' = [pc EXCEPT ![w] = label]
    /\ loc' = [loc EXCEPT ![w] = l]
    /\ UNCHANGED resp

\* the response has been sent; the worker is free again
Finish(w) ==
    /\ pc[w] = "done"
    /\ pc' = [pc EXCEPT ![w] = "idle"]
    /\ resp' = [resp EXCEPT ![w] = NoResp]
    /\ UNCHANGED <<db, today, loc, nops>>

\* ------------------------------------------------------- plan generation

\* what the generation service can return for a plan: lesson descriptors, of which
\* only the last may be one that cannot be stored (a required field missing)
PlanItems(Ests) ==
    UNION {{s \in [1..n -> [ok : {TRUE}, est : Ests] \cup {[ok |-> FALSE]}] :
               \A i \in 1..(n - 1) : s[i].ok} : n \in 0..(MaxLessons + 1 - nextId.lesson)}

\* LearningPlanGenerateView.post, to the check of the service's answer
GeneratePlan_Call(w, u, items, raises) ==
    /\ AcceptGen(w)
    /\ nextId.plan <= MaxPlans
    /\ UNCHANGED <<db, today>>
    /\ IF raises \/ items = << >>
       THEN Return(w, [op |-> "generate_plan", status |-> 500])
       ELSE Goto(w, "gp_plan", [op |-> "generate_plan", user |-> u, items |-> items])

\* LearningPlan.objects.create
GeneratePlan_CreatePlan(w) ==
    /\ pc[w] = "gp_plan"
    /\ plans' = Insert(plans, nextId.plan, [user |-> loc[w].user, progress |-> 0])
    /\ nextId' = [nextId EXCEPT !.plan = @ + 1]
    /\ Goto(w, "gp_lesson", [op |-> "generate_plan", user |-> loc[w].user,
                             items |-> loc[w].items, plan |-> nextId.plan, k |-> 1])
    /\ UNCHANGED <<lessons, marks, quizzes, questions, attempts, notes, streaks, today, nops>>

\* one Lesson.objects.create of the loop; an unstorable descriptor raises
GeneratePlan_CreateLesson(w) ==
    /\ pc[w] = "gp_lesson"
    /\ LET l == loc[w]
           item == l.items[l.k]
       IN  IF ~item.ok
           THEN /\ Return(w, [op |-> "generate_plan", status |-> 500])
                /\ UNCHANGED <<lessons, nextId>>
           ELSE /\ lessons' = Insert(lessons, nextId.lesson,
                                     [plan |-> l.plan, time_estimate |-> item.est])
                /\ nextId' = [nextId EXCEPT !.lesson = @ + 1]
                /\ IF l.k = Len(l.items)
                   THEN Return(w, [op |-> "generate_plan", status |-> 201, plan_id |-> l.plan])
                   ELSE Goto(w, "gp_lesson", [l EXCEPT !.k = @ + 1])
    /\ UNCHANGED <<plans, marks, quizzes, questions, attempts, notes, streaks, today, nops>>

\* ------------------------------------------------------ progress engine

LessonsOf(p) == {i \in DOMAIN lessons : lessons[i].plan = p}

\* self.items.count()
CountLessons(p) == Cardinality(LessonsOf(p))

\* a bug that counts the marks of every user
CountCompletedBugAnyUser(p) ==
    Cardinality({i \in DOMAIN marks :
        /\ marks[i].lesson \in LessonsOf(p)
        /\ marks[i].is_completed})

\* UserProgress.objects.filter(lesson__plan=self, user=self.user, is_completed=True).count()
CountCompleted(p) ==
    Cardinality({i \in DOMAIN marks :
        /\ marks[i].lesson \in LessonsOf(p)
        /\ marks[i].user = plans[p].user
        /\ marks[i].is_completed})

\* a direct call of LearningPlan.calculate_progress on a stored plan
CalcProgress_Call(w, p) ==
    /\ Accept(w)
    /\ p \in DOMAIN plans
    /\ Goto(w, "cp_total", [op |-> "calc", plan |-> p, planprog |-> plans[p].progress])
    /\ UNCHANGED <<db, today>>

\* what follows calculate_progress: its caller's next statement
AfterCalc(w, l, value) ==
    IF l.op = "calc"
    THEN Return(w, [op |-> "calc", status |-> 200, plan |-> l.plan, value |-> value])
    ELSE LET out == [op |-> "toggle", status |-> 200, lesson_id |-> l.lesson,
                     is_completed |-> l.rec.is_completed, progress |-> l.planprog,
                     plan |-> l.plan]
         IN  IF l.rec.is_completed
             THEN Goto(w, "st_get", [op |-> "toggle", user |-> l.user, out |-> out])
             ELSE Return(w, out)

\* total_lessons = self.items.count(); a plan without lessons returns 0.0 at once
Calc_Total(w) ==
    /\ pc[w] = "cp_total"
    /\ LET l == loc[w]
           total == CountLessons(l.plan)
       IN  IF total = 0
           THEN AfterCalc(w, l, 0)
           ELSE Goto(w, "cp_completed", [l EXCEPT !.op = l.op] @@ [total |-> total])
    /\ UNCHANGED <<db, today, nops>>

\* completed_lessons = UserProgress.objects.filter(...).count()
Calc_Completed(w) ==
    /\ pc[w] = "cp_completed"
    /\ Goto(w, "cp_save", loc[w] @@ [completed |-> CountCompleted(loc[w].plan)])
    /\ UNCHANGED <<db, today, nops>>

\* a bug that stores and returns the mean of the stored progress and the new percentage
Calc_SaveBugSmooths(w) ==
    /\ pc[w] = "cp_save"
    /\ LET l == loc[w]
           value == (plans[l.plan].progress + Round2(l.completed, l.total)) \div 2
       IN  /\ plans' = [plans EXCEPT ![l.plan].progress = value]
           /\ AfterCalc(w, [l EXCEPT !.planprog = value], value)
    /\ UNCHANGED <<lessons, marks, quizzes, questions, attempts, notes, streaks, nextId,
                   today, nops>>

\* self.progress = round(...); self.save(update_fields=['progress']); return self.progress
Calc_Save(w) ==
    /\ pc[w] = "cp_save"
    /\ LET l == loc[w]
           value == Round2(l.completed, l.total)
       IN  /\ plans' = [plans EXCEPT ![l.plan].progress = value]
           /\ AfterCalc(w, [l EXCEPT !.planprog = value], value)
    /\ UNCHANGED <<lessons, marks, quizzes, questions, attempts, notes, streaks, nextId,
                   today, nops>>

\* ------------------------------------------------- lesson completion toggle

\* Lesson.objects.get(pk=lesson_id, plan__user=request.user)
OwnedLessonBugNoOwner(u, lid) == lid \in DOMAIN lessons

OwnedLesson(u, lid) == lid \in DOMAIN lessons /\ plans[lessons[lid].plan].user = u

\* LessonCompleteView.post, to the lookup of the lesson
Toggle_GetLesson(w, u, lid) ==
    /\ Accept(w)
    /\ UNCHANGED <<db, today>>
    /\ IF ~OwnedLesson(u, lid)
       THEN Return(w, [op |-> "toggle", status |-> 404])
       ELSE Goto(w, "tg_get", [op |-> "toggle", user |-> u, lesson |-> lid,
                               plan |-> lessons[lid].plan,
                               est |-> lessons[lid].time_estimate])

MarksOf(u, lid) == {i \in DOMAIN marks : marks[i].user = u /\ marks[i].lesson = lid}

\* UserProgress.objects.get_or_create: the get; several rows raise
\* MultipleObjectsReturned
Toggle_Get(w) ==
    /\ pc[w] = "tg_get"
    /\ LET l == loc[w]
           m == MarksOf(l.user, l.lesson)
       IN  IF m = {} THEN Goto(w, "tg_create", l)
           ELSE IF Cardinality(m) = 1
           THEN LET i == CHOOSE i \in m : TRUE
                IN  Goto(w, "tg_save", l @@ [row |-> i, rec |-> marks[i]])
           ELSE Return(w, [op |-> "toggle", status |-> 500])
    /\ UNCHANGED <<db, today, nops>>

\* UserProgress.objects.get_or_create: the create (no constraint can refuse it).
\* completed_at 0 is NULL.
Toggle_Create(w) ==
    /\ pc[w] = "tg_create"
    /\ LET l == loc[w]
           rec == [user |-> l.user, lesson |-> l.lesson, is_completed |-> FALSE,
                   completed_at |-> 0, time_spent |-> 0]
       IN  /\ marks' = Insert(marks, nextId.mark, rec)
           /\ nextId' = [nextId EXCEPT !.mark = @ + 1]
           /\ Goto(w, "tg_save", l @@ [row |-> nextId.mark, rec |-> rec])
    /\ UNCHANGED <<plans, lessons, quizzes, questions, attempts, notes, streaks, today, nops>>

\* a bug that keeps the completion timestamp when the mark is reopened
FlippedBugKeepsTimestamp(rec, est, now) ==
    LET done == ~rec.is_completed
    IN  [rec EXCEPT !.is_completed = done,
                    !.completed_at = IF done THEN now ELSE @,
                    !.time_spent = IF done /\ rec.time_spent = 0 THEN est ELSE @]

\* a bug that sets the minutes at every completion
FlippedBugOverwritesMinutes(rec, est, now) ==
    LET done == ~rec.is_completed
    IN  [rec EXCEPT !.is_completed = done,
                    !.completed_at = IF done THEN now ELSE 0,
                    !.time_spent = IF done THEN est ELSE @]

\* a bug that marks the lesson completed whatever it was
FlippedBugAlwaysComplete(rec, est, now) ==
    [rec EXCEPT !.is_completed = TRUE, !.completed_at = now,
                !.time_spent = IF rec.time_spent = 0 THEN est ELSE @]

\* the flip of the loaded mark
Flipped(rec, est, now) ==
    LET done == ~rec.is_completed
    IN  [rec EXCEPT !.is_completed = done,
                    !.completed_at = IF done THEN now ELSE 0,
                    !.time_spent = IF done /\ rec.time_spent = 0 THEN est ELSE @]

\* progress.save(): every field of the loaded row is written back
Toggle_Save(w) ==
    /\ pc[w] = "tg_save"
    /\ LET l == loc[w]
           rec == Flipped(l.rec, l.est, today)
       IN  /\ marks' = Insert(marks, l.row, rec)
           /\ Goto(w, "tg_plan", [l EXCEPT !.rec = rec])
    /\ UNCHANGED <<plans, lessons, quizzes, questions, attempts, notes, streaks, nextId,
                   today, nops>>

\* lesson.plan: the plan row is loaded
Toggle_LoadPlan(w) ==
    /\ pc[w] = "tg_plan"
    /\ Goto(w, "cp_total", loc[w] @@ [planprog |-> plans[loc[w].plan].progress])
    /\ UNCHANGED <<db, today, nops>>

\* ------------------------------------------------------------ streak ledger

StreakOf(u, d) == {i \in DOMAIN streaks : streaks[i].user = u /\ streaks[i].date = d}

\* the row of get_or_create(user, date, defaults): the toggle gives lessons_completed 0,
\* the quiz submission quizzes_taken 1, the note creation notes_created 1
NewStreak(op, u, d) ==
    [user |-> u, date |-> d,
     lessons_completed |-> 0,
     quizzes_taken |-> IF op = "submit" THEN 1 ELSE 0,
     notes_created |-> IF op = "note" THEN 1 ELSE 0,
     total_time_spent |-> 0]

\* a bug that adds the minutes of a lesson to the day when the lesson is completed
BumpedBugAddsMinutes(op, rec) ==
    IF op = "toggle" THEN [rec EXCEPT !.lessons_completed = @ + 1, !.total_time_spent = @ + 45]
    ELSE IF op = "submit" THEN [rec EXCEPT !.quizzes_taken = @ + 1]
    ELSE [rec EXCEPT !.notes_created = @ + 1]

\* a bug that counts every activity as a completed lesson
BumpedBugAlwaysLessons(op, rec) == [rec EXCEPT !.lessons_completed = @ + 1]

\* streak.<counter> += 1 on the loaded row
Bumped(op, rec) ==
    IF op = "toggle" THEN [rec EXCEPT !.lessons_completed = @ + 1]
    ELSE IF op = "submit" THEN [rec EXCEPT !.quizzes_taken = @ + 1]
    ELSE [rec EXCEPT !.notes_created = @ + 1]

\* a schema without the unique pair
UniqueViolatedBugNoConstraint(u, d) == FALSE

\* unique_together = ['user', 'date']: an insert of a second row of the pair is refused
UniqueViolated(u, d) == StreakOf(u, d) # {}

\* the get of StudyStreak.objects.get_or_create for date d
StreakLookup(w, l, d) ==
    LET m == StreakOf(l.user, d)
    IN  IF m = {} THEN Goto(w, "st_create", l @@ [date |-> d])
        ELSE IF Cardinality(m) = 1
        THEN LET i == CHOOSE i \in m : TRUE
             IN  Goto(w, "st_save", l @@ [date |-> d, row |-> i, rec |-> streaks[i]])
        ELSE Return(w, [op |-> l.op, status |-> 500])

\* today = timezone.now().date(); get_or_create: the get
Streak_Get(w) ==
    /\ pc[w] = "st_get"
    /\ StreakLookup(w, loc[w], today)
    /\ UNCHANGED <<db, today, nops>>

\* get_or_create: the create; a refused insert falls back to the get
Streak_Create(w) ==
    /\ pc[w] = "st_create"
    /\ LET l == loc[w]
           rec == NewStreak(l.op, l.user, l.date)
       IN  IF UniqueViolated(l.user, l.date)
           THEN /\ Goto(w, "st_reget", l)
                /\ UNCHANGED <<streaks, nextId>>
           ELSE /\ streaks' = Insert(streaks, nextId.streak, rec)
                /\ nextId' = [nextId EXCEPT !.streak = @ + 1]
                /\ IF l.op = "toggle"
                   THEN Goto(w, "st_save", l @@ [row |-> nextId.streak, rec |-> rec])
                   ELSE Return(w, l.out)
    /\ UNCHANGED <<plans, lessons, marks, quizzes, questions, attempts, notes, today, nops>>

\* get_or_create: the get after IntegrityError
Streak_Reget(w) ==
    /\ pc[w] = "st_reget"
    /\ StreakLookup(w, [x \in DOMAIN loc[w] \ {"date"} |-> loc[w][x]], loc[w].date)
    /\ UNCHANGED <<db, today, nops>>

\* the increment and streak.save(): every field of the loaded row is written back
Streak_Save(w) ==
    /\ pc[w] = "st_save"
    /\ LET l == loc[w]
       IN  /\ streaks' = Insert(streaks, l.row, Bumped(l.op, l.rec))
           /\ Return(w, l.out)
    /\ UNCHANGED <<plans, lessons, marks, quizzes, questions, attempts, notes, nextId,
                   today, nops>>

\* ------------------------------------------------------- quiz generation

\* what the generation service can return for a quiz: question descriptors, of which
\* only the last may be one that cannot be stored (a key missing)
QuizItems ==
    UNION {{s \in [1..n -> [ok : {TRUE}, label : GenLabels] \cup {[ok |-> FALSE]}] :
               \A i \in 1..(n - 1) : s[i].ok} : n \in 0..(MaxQuestions + 1 - nextId.question)}

\* correct_answer=q_data['correct_answer'].upper()
StoreLabelBugRaw(s) == s

StoreLabel(s) == Upper(s)

\* QuizGenerateView.post, to the lookup of the lesson
QuizGen_GetLesson(w, u, lid) ==
    /\ AcceptGen(w)
    /\ nextId.quiz <= MaxQuizzes
    /\ UNCHANGED <<db, today>>
    /\ IF ~OwnedLesson(u, lid)
       THEN Return(w, [op |-> "generate_quiz", status |-> 404])
       ELSE Goto(w, "gq_existing", [op |-> "generate_quiz", lesson |-> lid])

\* Quiz.objects.filter(lesson=lesson).first(), then the call of the generation service
QuizGen_Existing(w, items, raises) ==
    /\ pc[w] = "gq_existing"
    /\ UNCHANGED <<db, today, nops>>
    /\ LET l == loc[w]
           ex == {q \in DOMAIN quizzes : quizzes[q].lesson = l.lesson}
       IN  IF ex # {}
           THEN Return(w, [op |-> "generate_quiz", status |-> 200,
                           quiz |-> CHOOSE q \in ex : \A r \in ex : q <= r])
           ELSE IF raises
           THEN Return(w, [op |-> "generate_quiz", status |-> 500])
           ELSE Goto(w, "gq_quiz", l @@ [items |-> items])

\* Quiz.objects.create
QuizGen_CreateQuiz(w) ==
    /\ pc[w] = "gq_quiz"
    /\ LET l == loc[w]
       IN  /\ quizzes' = Insert(quizzes, nextId.quiz, [lesson |-> l.lesson])
           /\ nextId' = [nextId EXCEPT !.quiz = @ + 1]
           /\ IF l.items = << >>
              THEN Return(w, [op |-> "generate_quiz", status |-> 201, quiz |-> nextId.quiz])
              ELSE Goto(w, "gq_question", l @@ [quiz |-> nextId.quiz, k |-> 1])
    /\ UNCHANGED <<plans, lessons, marks, questions, attempts, notes, streaks, today, nops>>

\* one QuizQuestion.objects.create of the loop; an unstorable descriptor raises and the
\* handler answers 500
QuizGen_CreateQuestion(w) ==
    /\ pc[w] = "gq_question"
    /\ LET l == loc[w]
           item == l.items[l.k]
       IN  IF ~item.ok
           THEN /\ Return(w, [op |-> "generate_quiz", status |-> 500])
                /\ UNCHANGED <<questions, nextId>>
           ELSE /\ questions' = Insert(questions, nextId.question,
                        [quiz |-> l.quiz, correct_answer |-> StoreLabel(item.label)])
                /\ nextId' = [nextId EXCEPT !.question = @ + 1]
                /\ IF l.k = Len(l.items)
                   THEN Return(w, [op |-> "generate_quiz", status |-> 201, quiz |-> l.quiz])
                   ELSE Goto(w, "gq_question", [l EXCEPT !.k = @ + 1])
    /\ UNCHANGED <<plans, lessons, marks, quizzes, attempts, notes, streaks, today, nops>>

\* ---------------------------------------------------------- quiz scoring

QuestionsOf(q) == {i \in DOMAIN questions : questions[i].quiz = q}

\* the rows of a set of primary keys in the order of the keys
RECURSIVE Ordered(_)
Ordered(S) ==
    IF S = {} THEN << >>
    ELSE LET m == CHOOSE x \in S : \A y \in S : x <= y
         IN  <<m>> \o Ordered(S \ {m})

\* str(question.id)
Key(id) == ToString(id)

\* user_answers.get(question_id, '')
Lookup(answers, k) == IF k \in DOMAIN answers.map THEN answers.map[k] ELSE ""

\* the comparison of a normalised answer with a stored label
IsCorrectBugAlways(user_answer, stored) == TRUE

IsCorrect(user_answer, stored) == user_answer = stored

\* the per-question result of the grading loop
Result(answers, id) ==
    LET ua == Upper(Lookup(answers, Key(id)))
    IN  [question_id |-> id, user_answer |-> ua,
         correct_answer |-> questions[id].correct_answer,
         is_correct |-> IsCorrect(ua, questions[id].correct_answer)]

\* the grading loop over the questions read
Grade(answers, ids) == [k \in 1..Len(ids) |-> Result(answers, ids[k])]

CorrectCount(results) == Cardinality({k \in 1..Len(results) : results[k].is_correct})

\* Quiz.objects.get(pk=quiz_id, lesson__plan__user=request.user)
OwnedQuiz(u, q) == q \in DOMAIN quizzes /\ OwnedLesson(u, quizzes[q].lesson)

\* QuizSubmitView.post, to the validation of the body
Submit_GetQuiz(w, u, q, payload) ==
    /\ Accept(w)
    /\ nextId.attempt <= MaxAttempts
    /\ UNCHANGED <<db, today>>
    /\ IF ~OwnedQuiz(u, q)
       THEN Return(w, [op |-> "submit", status |-> 404])
       ELSE IF payload.kind = "missing"
       THEN Return(w, [op |-> "submit", status |-> 400])
       ELSE Goto(w, "sq_count", [op |-> "submit", user |-> u, quiz |-> q,
                                 answers |-> payload])

\* total_questions = questions.count()
Submit_Count(w) ==
    /\ pc[w] = "sq_count"
    /\ Goto(w, "sq_grade", loc[w] @@ [total |-> Cardinality(QuestionsOf(loc[w].quiz))])
    /\ UNCHANGED <<db, today, nops>>

\* the grading loop reads the questions; .get on a value that is no mapping, or .upper()
\* on a value that is no string, raises
Submit_Grade(w) ==
    /\ pc[w] = "sq_grade"
    /\ UNCHANGED <<db, today, nops>>
    /\ LET l == loc[w]
           ids == Ordered(QuestionsOf(l.quiz))
           raises == /\ ids # << >>
                     /\ \/ l.answers.kind # "map"
                        \/ \E k \in 1..Len(ids) : Lookup(l.answers, Key(ids[k])) = NotAString
       IN  IF raises
           THEN Return(w, [op |-> "submit", status |-> 500])
           ELSE LET results == IF ids = << >> THEN << >> ELSE Grade(l.answers, ids)
                IN  Goto(w, "sq_attempt",
                         l @@ [results |-> results, correct |-> CorrectCount(results)])

\* score, QuizAttempt.objects.create and the response that will be sent
Submit_Attempt(w) ==
    /\ pc[w] = "sq_attempt"
    /\ LET l == loc[w]
           score == IF l.total > 0 THEN Frac100(l.correct, l.total) ELSE [n |-> 0, d |-> 1]
           out == [op |-> "submit", status |-> 200,
                   score |-> IF l.total > 0 THEN Round2(l.correct, l.total) ELSE 0,
                   correct_count |-> l.correct, total_questions |-> l.total,
                   results |-> l.results]
       IN  /\ attempts' = Insert(attempts, nextId.attempt,
                                 [user |-> l.user, quiz |-> l.quiz, score |-> score,
                                  answers |-> l.answers])
           /\ nextId' = [nextId EXCEPT !.attempt = @ + 1]
           /\ Goto(w, "st_get", [op |-> "submit", user |-> l.user, out |-> out])
    /\ UNCHANGED <<plans, lessons, marks, quizzes, questions, notes, streaks, today, nops>>

\* ------------------------------------------------------------------ notes

\* LessonNotesView.post: the body is validated, then perform_create stores the note for
\* the lesson id of the URL, whoever owns that lesson; an id of no lesson violates the
\* foreign key
Note_Create(w, u, lid, valid) ==
    /\ Accept(w)
    /\ UNCHANGED <<plans, lessons, marks, quizzes, questions, attempts, streaks, today>>
    /\ IF ~valid
       THEN Return(w, [op |-> "note", status |-> 400]) /\ UNCHANGED <<notes, nextId>>
       ELSE IF lid \notin DOMAIN lessons
       THEN Return(w, [op |-> "note", status |-> 500]) /\ UNCHANGED <<notes, nextId>>
       ELSE /\ notes' = Insert(notes, nextId.note, [user |-> u, lesson |-> lid])
            /\ nextId' = [nextId EXCEPT !.note = @ + 1]
            /\ Goto(w, "st_get", [op |-> "note", user |-> u,
                                  out |-> [op |-> "note", status |-> 201,
                                           note |-> nextId.note]])

\* LessonNoteDetailView.delete: the lookup among the user's notes
NoteDelete_Get(w, u, n) ==
    /\ Accept(w)
    /\ UNCHANGED <<db, today>>
    /\ IF n \in DOMAIN notes /\ notes[n].user = u
       THEN Goto(w, "nd_delete", [op |-> "note_delete", note |-> n])
       ELSE Return(w, [op |-> "note_delete", status |-> 404])

\* a bug that takes the deleted note back out of the ledger of its user
NoteDelete_DeleteBugRollsBack(w) ==
    /\ pc[w] = "nd_delete"
    /\ notes' = Restrict(notes, DOMAIN notes \ {loc[w].note})
    /\ streaks' = [i \in DOMAIN streaks |->
                      IF streaks[i].user = notes[loc[w].note].user /\ streaks[i].notes_created > 0
                      THEN [streaks[i] EXCEPT !.notes_created = @ - 1]
                      ELSE streaks[i]]
    /\ Return(w, [op |-> "note_delete", status |-> 204])
    /\ UNCHANGED <<plans, lessons, marks, quizzes, questions, attempts, nextId, today, nops>>

\* LessonNoteDetailView.delete: the row is deleted
NoteDelete_Delete(w) ==
    /\ pc[w] = "nd_delete"
    /\ notes' = Restrict(notes, DOMAIN notes \ {loc[w].note})
    /\ Return(w, [op |-> "note_delete", status |-> 204])
    /\ UNCHANGED <<plans, lessons, marks, quizzes, questions, attempts, streaks, nextId,
                   today, nops>>

\* -------------------------------------------------------- streak analytics

\* range(365): the days of the walk back and of the activity calendar
StreakWindow == 365

\* StudyStreak.objects.filter(user=user): the dates of the rows of user u
DatesOf(u) == {streaks[i].date : i \in {j \in DOMAIN streaks : streaks[j].user = u}}

\* order_by('-date') and values_list('date', flat=True): the days from the latest date
\* down to the earliest, without the days that are not in S
Descending(S) ==
    IF S = {} THEN << >>
    ELSE LET hi == CHOOSE x \in S : \A y \in S : x >= y
             lo == CHOOSE x \in S : \A y \in S : x <= y
             InS(d) == d \in S
         IN  SelectSeq([k \in 1..(hi - lo + 1) |-> hi - (k - 1)], InS)

\* the loop of the current streak from day d: the loop leaves at the first of its
\* StreakWindow iterations whose day has no row, having counted the iterations before
WalkBack(D, d) ==
    LET stops == {i \in 0..(StreakWindow - 1) : d - i \notin D}
    IN  IF stops = {} THEN StreakWindow
        ELSE CHOOSE i \in stops : \A j \in stops : i <= j

\* a bug that starts the walk at yesterday
CurrentStreakBugFromYesterday(D, t) == WalkBack(D, t - 1)

\* current_streak: the walk back from today over the dates D
CurrentStreak(D, t) == WalkBack(D, t)

\* temp_streak after the iteration of pair i of the loop over the adjacent pairs: 1 after
\* a pair more than a day apart, and one more than after pair i - 1 otherwise
TempAfter(dates, i) ==
    LET resets == {j \in 1..i : dates[j] - dates[j + 1] # 1}
        last == IF resets = {} THEN 0 ELSE CHOOSE j \in resets : \A k \in resets : j >= k
    IN  IF last = 0 THEN 1 + i ELSE 1 + (i - last)

\* the loop over the adjacent pairs of all_dates: the last temp_streak, and the largest
\* temp_streak assigned by an increment (0 if there was none)
ScanPairs(dates) ==
    LET n == Len(dates) - 1
        grown == {TempAfter(dates, i) : i \in {j \in 1..n : dates[j] - dates[j + 1] = 1}}
    IN  [temp |-> IF n < 1 THEN 1 ELSE TempAfter(dates, n),
         longest |-> IF grown = {} THEN 0 ELSE CHOOSE x \in grown : \A y \in grown : x >= y]

\* a bug that leaves out the run that is still open when the loop ends
LongestStreakBugNoLastRun(D, current) ==
    Max(ScanPairs(Descending(D)).longest, current)

\* longest_streak = max(longest_streak, temp_streak, current_streak)
LongestStreak(D, current) ==
    LET r == ScanPairs(Descending(D))
    IN  Max(Max(r.longest, r.temp), current)

\* StudyStreak.activity_score
ActivityScore(r) == r.lessons_completed * 3 + r.quizzes_taken * 2 + r.notes_created

\* a bug that gives the day the score of the latest row of the user
CalendarEntryBugLatestRow(u, d) ==
    LET m == {i \in DOMAIN streaks : streaks[i].user = u}
    IN  IF m = {} THEN [date |-> d, count |-> 0, lessons |-> 0, quizzes |-> 0, notes |-> 0]
        ELSE LET r == streaks[CHOOSE i \in m : \A j \in m : streaks[i].date >= streaks[j].date]
             IN  [date |-> d, count |-> ActivityScore(r), lessons |-> r.lessons_completed,
                  quizzes |-> r.quizzes_taken, notes |-> r.notes_created]

\* streaks.filter(date=date).first() and the entry of the day
CalendarEntry(u, d) ==
    LET m == StreakOf(u, d)
    IN  IF m = {} THEN [date |-> d, count |-> 0, lessons |-> 0, quizzes |-> 0, notes |-> 0]
        ELSE LET r == streaks[CHOOSE i \in m : TRUE]
             IN  [date |-> d, count |-> ActivityScore(r), lessons |-> r.lessons_completed,
                  quizzes |-> r.quizzes_taken, notes |-> r.notes_created]

\* start_date = today - timedelta(days=364); one entry per day of the window
ActivityCalendar(u, t) ==
    [i \in 1..StreakWindow |-> CalendarEntry(u, t - (StreakWindow - 1) + (i - 1))]

\* a bug that leaves out the case of an activity today
StreakStatusBugNoTodayCase(since, current) ==
    IF since = 1 /\ current > 0 THEN "active_yesterday"
    ELSE IF current > 0 THEN "active"
    ELSE "inactive"

\* a bug that leaves out the test of the current streak
StreakStatusBugYesterdayAlone(since, current) ==
    IF since = 0 THEN "active_today"
    ELSE IF since = 1 THEN "active_yesterday"
    ELSE IF current > 0 THEN "active"
    ELSE "inactive"

\* a bug that tests the current streak before the day of the last activity
StreakStatusBugStreakFirst(since, current) ==
    IF current > 0 THEN "active"
    ELSE IF since = 0 THEN "active_today"
    ELSE "inactive"

\* streak_status from days_since_activity and current_streak
StreakStatus(since, current) ==
    IF since = 0 THEN "active_today"
    ELSE IF since = 1 /\ current > 0 THEN "active_yesterday"
    ELSE IF current > 0 THEN "active"
    ELSE "inactive"

\* a bug that answers the full calendar of zeros to a user without rows
EmptyStatsBugFilledCalendar ==
    [op |-> "stats", status |-> 200, current_streak |-> 0, longest_streak |-> 0,
     total_active_days |-> 0,
     activity_calendar |-> [i \in 1..StreakWindow |->
                               [date |-> today - (StreakWindow - 1) + (i - 1), count |-> 0,
                                lessons |-> 0, quizzes |-> 0, notes |-> 0]],
     streak_status |-> "inactive"]

\* the response to a user without rows
EmptyStats ==
    [op |-> "stats", status |-> 200, current_streak |-> 0, longest_streak |-> 0,
     total_active_days |-> 0, activity_calendar |-> << >>, streak_status |-> "inactive"]

\* StudyStreakView.get: the handler only reads, and reads today once; the response is
\* kept with the user it answers
Stats_Get(w, u) ==
    /\ Accept(w)
    /\ UNCHANGED <<db, today>>
    /\ LET D == DatesOf(u)
           current == CurrentStreak(D, today)
           last == Descending(D)[1]
       IN  IF D = {} THEN Return(w, EmptyStats @@ [user |-> u])
           ELSE Return(w, [op |-> "stats", status |-> 200, user |-> u,
                           current_streak |-> current,
                           longest_streak |-> LongestStreak(D, current),
                           total_active_days |->
                               Cardinality({i \in DOMAIN streaks : streaks[i].user = u}),
                           activity_calendar |-> ActivityCalendar(u, today),
                           streak_status |-> StreakStatus(today - last, current)])


\* ------------------------------------------------------ progress analytics

\* LearningPlan.objects.filter(user=user)
PlansOfUser(u) == {p \in DOMAIN plans : plans[p].user = u}

\* Lesson.objects.filter(plan__user=user)
LessonsOfUser(u) == {i \in DOMAIN lessons : lessons[i].plan \in PlansOfUser(u)}

\* a bug that takes every mark of the user, completed or not
CompletedMarksBugAllMarks(u) == {i \in DOMAIN marks : marks[i].user = u}

\* UserProgress.objects.filter(user=user, is_completed=True)
CompletedMarks(u) == {i \in DOMAIN marks : marks[i].user = u /\ marks[i].is_completed}

\* round((completed / total * 100) if total > 0 else 0, 2), in hundredths
CompletionRate(completed, total) ==
    IF total > 0 THEN Round2(completed, total) ELSE 0

RECURSIVE SumOver(_, _)
\* Sum over the rows of S of the value f gives a row
SumOver(S, f) ==
    IF S = {} THEN 0
    ELSE LET i == CHOOSE i \in S : TRUE
         IN  f[i] + SumOver(S \ {i}, f)

\* completed_progress.aggregate(total=Sum('time_spent'))['total'] or 0
TotalTimeSpent(u) ==
    SumOver(CompletedMarks(u), [i \in DOMAIN marks |-> marks[i].time_spent])

\* QuizAttempt.objects.filter(user=user)
AttemptsOfUser(u) == {i \in DOMAIN attempts : attempts[i].user = u}

RECURSIVE ProductOver(_, _)
ProductOver(S, f) ==
    IF S = {} THEN 1
    ELSE LET i == CHOOSE i \in S : TRUE
         IN  f[i] * ProductOver(S \ {i}, f)

\* round(quiz_attempts.aggregate(avg=Avg('score'))['avg'] or 0, 2), in hundredths: the
\* scores are the fractions n / d, their mean is taken over a common denominator
AverageQuizScore(u) ==
    LET A == AttemptsOfUser(u)
        den == ProductOver(A, [i \in DOMAIN attempts |-> attempts[i].score.d])
        num == SumOver(A, [i \in DOMAIN attempts |->
                               attempts[i].score.n * (den \div attempts[i].score.d)])
    IN  IF A = {} THEN 0 ELSE Round2(num, 100 * den * Cardinality(A))

\* the length of the list of recent completions
RecentLimit == 10

\* the completed marks of the user with the latest completed_at, at most ten (the days
\* of the model do not order the marks completed on one day, so the entries are kept
\* by mark and a tie at the limit goes to the later mark)
RecentActivity(u) ==
    LET C == CompletedMarks(u)
        Later(k, m) == \/ marks[k].completed_at > marks[m].completed_at
                       \/ marks[k].completed_at = marks[m].completed_at /\ k > m
        shown == {m \in C : Cardinality({k \in C : Later(k, m)}) < RecentLimit}
    IN  [m \in shown |-> [lesson |-> marks[m].lesson,
                          completed_at |-> marks[m].completed_at,
                          time_spent |-> marks[m].time_spent]]

\* the per-plan breakdown: the stored progress and the two counts of each plan
PlansProgress(u) ==
    [p \in PlansOfUser(u) |->
        [progress |-> plans[p].progress,
         total_lessons |-> CountLessons(p),
         completed_lessons |->
             Cardinality({i \in CompletedMarks(u) : marks[i].lesson \in LessonsOf(p)})]]

\* a bug that stores the recomputed progress of the user's plans while reading
Analytics_GetBugStoresProgress(w, u) ==
    /\ Accept(w)
    /\ plans' = [p \in DOMAIN plans |->
                    IF plans[p].user = u /\ CountLessons(p) > 0
                    THEN [plans[p] EXCEPT !.progress = Round2(CountCompleted(p), CountLessons(p))]
                    ELSE plans[p]]
    /\ UNCHANGED <<lessons, marks, quizzes, questions, attempts, notes, streaks, nextId, today>>
    /\ Return(w, [op |-> "analytics", status |-> 200, user |-> u,
                  total_plans |-> Cardinality(PlansOfUser(u)),
                  total_lessons |-> Cardinality(LessonsOfUser(u)),
                  completed_lessons |-> Cardinality(CompletedMarks(u)),
                  total_time_spent |-> TotalTimeSpent(u),
                  completion_rate |-> CompletionRate(Cardinality(CompletedMarks(u)),
                                                     Cardinality(LessonsOfUser(u))),
                  average_quiz_score |-> AverageQuizScore(u),
                  recent_activity |-> RecentActivity(u),
                  plans_progress |-> PlansProgress(u)])

\* ProgressAnalyticsView.get: the handler only reads; the response is kept with the
\* user it answers
Analytics_Get(w, u) ==
    /\ Accept(w)
    /\ UNCHANGED <<db, today>>
    /\ Return(w, [op |-> "analytics", status |-> 200, user |-> u,
                  total_plans |-> Cardinality(PlansOfUser(u)),
                  total_lessons |-> Cardinality(LessonsOfUser(u)),
                  completed_lessons |-> Cardinality(CompletedMarks(u)),
                  total_time_spent |-> TotalTimeSpent(u),
                  completion_rate |-> CompletionRate(Cardinality(CompletedMarks(u)),
                                                     Cardinality(LessonsOfUser(u))),
                  average_quiz_score |-> AverageQuizScore(u),
                  recent_activity |-> RecentActivity(u),
                  plans_progress |-> PlansProgress(u)])

\* ------------------------------------------------------- administration

Quiescent == \A w \in Workers : pc[w] = "idle"

\* the admin site stores a mark for a user and a lesson that have none (between requests)
Admin_AddMark(u, lid, done) ==
    /\ Quiescent
    /\ nops < MaxOps
    /\ nops' = nops + 1
    /\ lid \in DOMAIN lessons
    /\ MarksOf(u, lid) = {}
    /\ marks' = Insert(marks, nextId.mark,
                       [user |-> u, lesson |-> lid, is_completed |-> done,
                        completed_at |-> IF done THEN today ELSE 0, time_spent |-> 0])
    /\ nextId' = [nextId EXCEPT !.mark = @ + 1]
    /\ UNCHANGED <<plans, lessons, quizzes, questions, attempts, notes, streaks, today,
                   pc, loc, resp>>

\* the admin site deletes a lesson (between requests); on_delete=CASCADE removes its
\* marks, its notes, its quizzes and their questions and attempts
Admin_DeleteLesson(lid) ==
    /\ Quiescent
    /\ nops < MaxOps
    /\ nops' = nops + 1
    /\ lid \in DOMAIN lessons
    /\ LET qs == {q \in DOMAIN quizzes : quizzes[q].lesson # lid}
       IN  /\ lessons' = Restrict(lessons, DOMAIN lessons \ {lid})
           /\ marks' = Restrict(marks, {i \in DOMAIN marks : marks[i].lesson # lid})
           /\ notes' = Restrict(notes, {i \in DOMAIN notes : notes[i].lesson # lid})
           /\ quizzes' = Restrict(quizzes, qs)
           /\ questions' = Restrict(questions, {i \in DOMAIN questions : questions[i].quiz \in qs})
           /\ attempts' = Restrict(attempts, {i \in DOMAIN attempts : attempts[i].quiz \in qs})
    /\ UNCHANGED <<plans, streaks, nextId, today, pc, loc, resp>>

\* ------------------------------------------------------------------ clock

\* midnight passes
Tick ==
    /\ today <= MaxDays
    /\ today' = today + 1
    /\ UNCHANGED <<db, pc, loc, resp, nops>>

\* ------------------------------------------------------- specifications

GeneratePlanRest(w) ==
    \/ GeneratePlan_CreatePlan(w)
    \/ GeneratePlan_CreateLesson(w)

CalcSteps(w) ==
    \/ Calc_Total(w)
    \/ Calc_Completed(w)
    \/ Calc_Save(w)

ToggleSteps(w) ==
    \/ \E u \in Users, lid \in 1..nextId.lesson : Toggle_GetLesson(w, u, lid)
    \/ Toggle_Get(w)
    \/ Toggle_Create(w)
    \/ Toggle_Save(w)
    \/ Toggle_LoadPlan(w)

StreakSteps(w) ==
    \/ Streak_Get(w)
    \/ Streak_Create(w)
    \/ Streak_Save(w)

QuizGenSteps(w) ==
    \/ \E u \in Users, lid \in 1..nextId.lesson : QuizGen_GetLesson(w, u, lid)
    \/ \E items \in QuizItems, raises \in BOOLEAN : QuizGen_Existing(w, items, raises)
    \/ QuizGen_CreateQuiz(w)
    \/ QuizGen_CreateQuestion(w)

SubmitRest(w) ==
    \/ Submit_Count(w)
    \/ Submit_Grade(w)
    \/ Submit_Attempt(w)

NoteSteps(w) ==
    \/ \E u \in Users, lid \in 1..nextId.lesson, valid \in BOOLEAN : Note_Create(w, u, lid, valid)
    \/ \E u \in Users, n \in 1..nextId.note : NoteDelete_Get(w, u, n)
    \/ NoteDelete_Delete(w)

\* minutes an administrator may record on a mark
AdminMinutes == {0, 30}

\* the admin site edits the minutes spent of a mark (between requests)
Admin_SetMinutes(m, minutes) ==
    /\ Quiescent
    /\ nops < MaxOps
    /\ nops' = nops + 1
    /\ m \in DOMAIN marks
    /\ marks[m].time_spent # minutes
    /\ marks' = [marks EXCEPT ![m].time_spent = minutes]
    /\ UNCHANGED <<plans, lessons, quizzes, questions, attempts, notes, streaks, nextId,
                   today, pc, loc, resp>>

AdminSteps ==
    \/ \E u \in Users, lid \in DOMAIN lessons, done \in BOOLEAN : Admin_AddMark(u, lid, done)
    \/ \E lid \in DOMAIN lessons : Admin_DeleteLesson(lid)

\* Progress engine: plans are generated, their owners toggle lessons one request at a
\* time, calculate_progress is also called directly, the admin site adds marks and
\* deletes lessons.
NextProgress ==
    \/ \E items \in PlanItems({45}), raises \in BOOLEAN :
           GeneratePlan_Call(1, "u1", items, raises)
    \/ GeneratePlanRest(1)
    \/ \E p \in DOMAIN plans : CalcProgress_Call(1, p)
    \/ CalcSteps(1)
    \/ ToggleSteps(1)
    \/ StreakSteps(1)
    \/ AdminSteps
    \/ Finish(1)

Spec == Init /\ [][NextProgress]_vars

\* the store after user u1 has generated one plan of one lesson
InitSeeded ==
    /\ plans = (1 :> [user |-> "u1", progress |-> 0])
    /\ lessons = (1 :> [plan |-> 1, time_estimate |-> 45])
    /\ marks = << >>
    /\ quizzes = << >>
    /\ questions = << >>
    /\ attempts = << >>
    /\ notes = << >>
    /\ streaks = << >>
    /\ nextId = [plan |-> 2, lesson |-> 2, mark |-> 1, quiz |-> 1, question |-> 1,
                 attempt |-> 1, note |-> 1, streak |-> 1]
    /\ today = 1
    /\ pc = [w \in Workers |-> "idle"]
    /\ loc = [w \in Workers |-> Idle]
    /\ resp = [w \in Workers |-> NoResp]
    /\ nops = 0

\* the answer maps over the keys of the first two questions, with or without a key of
\* no question
AnswerMaps ==
    LET maps == UNION {[D -> SubmitLabels] : D \in SUBSET {"1", "2"}}
    IN  {Mapping(m) : m \in maps} \cup {Mapping(m @@ (ForeignKey :> "B")) : m \in maps}

\* Quiz scoring: quizzes are generated for the lesson of the seeded plan and answers
\* are submitted, one request at a time.
NextQuiz ==
    \/ QuizGenSteps(1)
    \/ \E u \in Users, q \in 1..nextId.quiz, payload \in AnswerMaps \cup {Missing, NotAMap} :
           Submit_GetQuiz(1, u, q, payload)
    \/ SubmitRest(1)
    \/ StreakSteps(1)
    \/ Finish(1)

SpecQuiz == InitSeeded /\ [][NextQuiz]_vars

\* the store after user u1 has also generated a quiz of one question for the lesson
InitSeededQuiz ==
    /\ plans = (1 :> [user |-> "u1", progress |-> 0])
    /\ lessons = (1 :> [plan |-> 1, time_estimate |-> 45])
    /\ marks = << >>
    /\ quizzes = (1 :> [lesson |-> 1])
    /\ questions = (1 :> [quiz |-> 1, correct_answer |-> "A"])
    /\ attempts = << >>
    /\ notes = << >>
    /\ streaks = << >>
    /\ nextId = [plan |-> 2, lesson |-> 2, mark |-> 1, quiz |-> 2, question |-> 2,
                 attempt |-> 1, note |-> 1, streak |-> 1]
    /\ today = 1
    /\ pc = [w \in Workers |-> "idle"]
    /\ loc = [w \in Workers |-> Idle]
    /\ resp = [w \in Workers |-> NoResp]
    /\ nops = 0

\* the bodies of the submissions of the streak specifications
FewPayloads == {Mapping("1" :> "a"), Missing}

\* Streak ledger: the three activities, the toggle back, the deletion of a note and
\* midnight, one request at a time.
NextStreak ==
    \/ ToggleSteps(1)
    \/ CalcSteps(1)
    \/ \E u \in Users, q \in 1..nextId.quiz, payload \in FewPayloads :
           Submit_GetQuiz(1, u, q, payload)
    \/ SubmitRest(1)
    \/ NoteSteps(1)
    \/ StreakSteps(1)
    \/ Tick
    \/ Finish(1)

SpecStreak == InitSeededQuiz /\ [][NextStreak]_vars

\* Concurrent workers: every worker handles toggles, submissions and note creations on
\* the same day, and the steps of the workers interleave.
NextConc ==
    \E w \in Workers :
        \/ ToggleSteps(w)
        \/ CalcSteps(w)
        \/ \E u \in Users, q \in 1..nextId.quiz, payload \in FewPayloads :
               Submit_GetQuiz(w, u, q, payload)
        \/ SubmitRest(w)
        \/ \E u \in Users, lid \in 1..nextId.lesson, valid \in BOOLEAN :
               Note_Create(w, u, lid, valid)
        \/ StreakSteps(w)
        \/ Streak_Reget(w)
        \/ Finish(w)

SpecConc == InitSeededQuiz /\ [][NextConc]_vars

\* the store after user u1 has generated a plan of two lessons
InitTwoLessons ==
    /\ plans = (1 :> [user |-> "u1", progress |-> 0])
    /\ lessons = (1 :> [plan |-> 1, time_estimate |-> 45]
                   @@ 2 :> [plan |-> 1, time_estimate |-> 45])
    /\ marks = << >>
    /\ quizzes = << >>
    /\ questions = << >>
    /\ attempts = << >>
    /\ notes = << >>
    /\ streaks = << >>
    /\ nextId = [plan |-> 2, lesson |-> 3, mark |-> 1, quiz |-> 1, question |-> 1,
                 attempt |-> 1, note |-> 1, streak |-> 1]
    /\ today = 1
    /\ pc = [w \in Workers |-> "idle"]
    /\ loc = [w \in Workers |-> Idle]
    /\ resp = [w \in Workers |-> NoResp]
    /\ nops = 0

\* Concurrent toggles: the steps of the toggles of the workers interleave.
NextConcToggle ==
    \E w \in Workers :
        \/ ToggleSteps(w)
        \/ CalcSteps(w)
        \/ StreakSteps(w)
        \/ Streak_Reget(w)
        \/ Finish(w)

SpecConcToggle == InitTwoLessons /\ [][NextConcToggle]_vars

\* the store after user u1 has generated a plan of one lesson and a quiz of three
\* questions for the lesson
InitThreeQuestions ==
    /\ plans = (1 :> [user |-> "u1", progress |-> 0])
    /\ lessons = (1 :> [plan |-> 1, time_estimate |-> 45])
    /\ marks = << >>
    /\ quizzes = (1 :> [lesson |-> 1])
    /\ questions = (1 :> [quiz |-> 1, correct_answer |-> "A"]
                     @@ 2 :> [quiz |-> 1, correct_answer |-> "B"]
                     @@ 3 :> [quiz |-> 1, correct_answer |-> "A"])
    /\ attempts = << >>
    /\ notes = << >>
    /\ streaks = << >>
    /\ nextId = [plan |-> 2, lesson |-> 2, mark |-> 1, quiz |-> 2, question |-> 4,
                 attempt |-> 1, note |-> 1, streak |-> 1]
    /\ today = 1
    /\ pc = [w \in Workers |-> "idle"]
    /\ loc = [w \in Workers |-> Idle]
    /\ resp = [w \in Workers |-> NoResp]
    /\ nops = 0

\* the answer maps over the keys of the three questions, the empty map, and a body
\* without answers
ThreeAnswers ==
    {Mapping(m) : m \in [{"1", "2", "3"} -> SubmitLabels]} \cup {Mapping(<< >>), Missing}

\* Quiz attempts: the users submit answers to the quiz of three questions, one request
\* at a time.
NextAttempt ==
    \/ \E u \in Users, q \in 1..nextId.quiz, payload \in ThreeAnswers :
           Submit_GetQuiz(1, u, q, payload)
    \/ SubmitRest(1)
    \/ StreakSteps(1)
    \/ Finish(1)

SpecAttempt == InitThreeQuestions /\ [][NextAttempt]_vars

\* Minutes spent: the toggles of the users, and an administrator who adds marks and
\* edits the minutes of the marks.
NextMinutes ==
    \/ ToggleSteps(1)
    \/ CalcSteps(1)
    \/ StreakSteps(1)
    \/ \E u \in Users, lid \in DOMAIN lessons, done \in BOOLEAN : Admin_AddMark(u, lid, done)
    \/ \E m \in DOMAIN marks, minutes \in AdminMinutes : Admin_SetMinutes(m, minutes)
    \/ Finish(1)

SpecMinutes == InitSeeded /\ [][NextMinutes]_vars

\* the day of the streak statistics
StatsToday == 400

\* the dates of the rows of user u1: any of the last days, with or without an older row
\* at the end of the window (the oldest day of the calendar, the day before it), and the
\* runs of every day from before the window up to today or yesterday
NearDates == SUBSET ((StatsToday - MaxNear)..StatsToday)

FarDates == {{}, {StatsToday - (StreakWindow - 1)}, {StatsToday - StreakWindow}}

LongRuns ==
    {(StatsToday - StreakWindow - 1)..StatsToday,
     (StatsToday - StreakWindow - 1)..(StatsToday - 1)}

Ledgers == {near \cup far : near \in NearDates, far \in FarDates} \cup LongRuns

\* the row of a day on which user u created notes and nothing else
NoteDay(u, d) ==
    [user |-> u, date |-> d, lessons_completed |-> 0, quizzes_taken |-> 0,
     notes_created |-> 1 + (d % 2), total_time_spent |-> 0]

\* the notes that the days of D count: two on the odd days, one on the even days
NotesIn(D) == Cardinality(D) + Cardinality({d \in D : d % 2 = 1})

\* the store after user u1 has generated a plan of one lesson, u1 has created notes on
\* the days of D and u2 today, and the notes have been deleted
LedgerOf(D) ==
    LET ds == Descending(D)
    IN  [i \in 1..Len(ds) |-> NoteDay("u1", ds[i])] \o <<NoteDay("u2", StatsToday)>>

InitLedger ==
    /\ plans = (1 :> [user |-> "u1", progress |-> 0])
    /\ lessons = (1 :> [plan |-> 1, time_estimate |-> 45])
    /\ marks = << >>
    /\ quizzes = << >>
    /\ questions = << >>
    /\ attempts = << >>
    /\ notes = << >>
    /\ \E D \in Ledgers :
           /\ streaks = LedgerOf(D)
           /\ nextId = [plan |-> 2, lesson |-> 2, mark |-> 1, quiz |-> 1, question |-> 1,
                        attempt |-> 1, note |-> 2 + NotesIn(D),
                        streak |-> 1 + Len(streaks)]
    /\ today = StatsToday
    /\ pc = [w \in Workers |-> "idle"]
    /\ loc = [w \in Workers |-> Idle]
    /\ resp = [w \in Workers |-> NoResp]
    /\ nops = 0

\* Streak statistics: the users ask for their statistics.
NextStats ==
    \/ \E u \in Users : Stats_Get(1, u)
    \/ Finish(1)

SpecStats == InitLedger /\ [][NextStats]_vars

\* the store after user u1 has generated a plan of three lessons and a quiz of three
\* questions for the first lesson
InitAnalytics ==
    /\ plans = (1 :> [user |-> "u1", progress |-> 0])
    /\ lessons = (1 :> [plan |-> 1, time_estimate |-> 45]
                   @@ 2 :> [plan |-> 1, time_estimate |-> 45]
                   @@ 3 :> [plan |-> 1, time_estimate |-> 45])
    /\ marks = << >>
    /\ quizzes = (1 :> [lesson |-> 1])
    /\ questions = (1 :> [quiz |-> 1, correct_answer |-> "A"]
                     @@ 2 :> [quiz |-> 1, correct_answer |-> "B"]
                     @@ 3 :> [quiz |-> 1, correct_answer |-> "A"])
    /\ attempts = << >>
    /\ notes = << >>
    /\ streaks = << >>
    /\ nextId = [plan |-> 2, lesson |-> 4, mark |-> 1, quiz |-> 2, question |-> 4,
                 attempt |-> 1, note |-> 1, streak |-> 1]
    /\ today = 1
    /\ pc = [w \in Workers |-> "idle"]
    /\ loc = [w \in Workers |-> Idle]
    /\ resp = [w \in Workers |-> NoResp]
    /\ nops = 0

\* answers to the quiz of three questions: one right of one given, two right of three
TwoPayloads ==
    {Mapping("1" :> "a"), Mapping("1" :> "a" @@ "2" :> "a" @@ "3" :> "a")}

\* the two read-only views, for either user
ReadSteps(w) ==
    \/ \E u \in Users : Analytics_Get(w, u)
    \/ \E u \in Users : Stats_Get(w, u)

\* Reading: worker 1 handles the toggles and submissions of u1 and reads, one request at a
\* time, and worker 2 only reads; an administrator gives u2 a completed mark on a lesson of u1.
\* The writes and midnight fall between the reads of worker 2, so that a response that
\* is still held was computed from the present store.
NextRead ==
    \/ pc[2] = "idle" /\ \E lid \in DOMAIN lessons : Toggle_GetLesson(1, "u1", lid)
    \/ pc[2] = "idle" /\ (Toggle_Get(1) \/ Toggle_Create(1) \/ Toggle_Save(1) \/ Toggle_LoadPlan(1))
    \/ pc[2] = "idle" /\ CalcSteps(1)
    \/ pc[2] = "idle" /\ \E payload \in TwoPayloads : Submit_GetQuiz(1, "u1", 1, payload)
    \/ pc[2] = "idle" /\ SubmitRest(1)
    \/ pc[2] = "idle" /\ StreakSteps(1)
    \/ Admin_AddMark("u2", 1, TRUE)
    \/ Quiescent /\ Tick
    \/ \E w \in Workers : ReadSteps(w)
    \/ \E w \in Workers : Finish(w)

SpecRead == InitAnalytics /\ [][NextRead]_vars

\* the store after user u1 has generated a plan of one lesson, or of two
InitCalc == InitSeeded \/ InitTwoLessons

\* Repeated recomputation: worker 1 handles toggles and direct calls of
\* calculate_progress, one request at a time, and an administrator adds marks and deletes
\* lessons between requests; worker 2 only calls calculate_progress, and only while
\* worker 1 is between requests, so that a call of worker 2 that follows a call of worker
\* 1 whose answer is still held follows it with nothing in between.
NextCalc ==
    \/ pc[2] = "idle" /\ ToggleSteps(1)
    \/ pc[2] = "idle" /\ \E p \in DOMAIN plans : CalcProgress_Call(1, p)
    \/ pc[2] = "idle" /\ CalcSteps(1)
    \/ pc[2] = "idle" /\ StreakSteps(1)
    \/ pc[1] \in {"idle", "done"} /\ \E p \in DOMAIN plans : CalcProgress_Call(2, p)
    \/ CalcSteps(2)
    \/ \E u \in Users, lid \in DOMAIN lessons, done \in BOOLEAN : Admin_AddMark(u, lid, done)
    \/ \E lid \in DOMAIN lessons : Admin_DeleteLesson(lid)
    \/ \E w \in Workers : Finish(w)

SpecCalc == InitCalc /\ [][NextCalc]_vars

\* ------------------------------------------------------------ properties

\* h hundredths is 100 * k / n rounded to two decimals
IsRounded(h, k, n) ==
    LET e == h * n - 10000 * k
    IN  2 * e <= n /\ -2 * e <= n

\* the lessons of plan p that its owner has completed
OwnerCompleted(p) ==
    {l \in LessonsOf(p) :
        \E i \in DOMAIN marks :
            marks[i].lesson = l /\ marks[i].user = plans[p].user /\ marks[i].is_completed}

\* a completed mark of a user who does not own plan p, on a lesson of p
ForeignCompleted(p) ==
    {i \in DOMAIN marks :
        marks[i].lesson \in LessonsOf(p) /\ marks[i].user # plans[p].user
        /\ marks[i].is_completed}

CalcDone(w) == pc[w] = "done" /\ resp[w].op = "calc"

ToggleDone(w) == pc[w] = "done" /\ resp[w].op = "toggle" /\ resp[w].status = 200

\* C1: calculate_progress on a plan with N >= 1 lessons returns and stores
\* round(100 * K / N, 2), K the number of lessons completed by the plan's owner; the
\* completed marks of other users on the plan's lessons do not count.
C1_ProgressIsOwnerRatio ==
    \A w \in Workers :
        CalcDone(w) /\ CountLessons(resp[w].plan) >= 1 =>
            /\ resp[w].value = plans[resp[w].plan].progress
            /\ IsRounded(resp[w].value, Cardinality(OwnerCompleted(resp[w].plan)),
                         CountLessons(resp[w].plan))

C1_Witness ==
    \E w \in Workers :
        /\ CalcDone(w)
        /\ CountLessons(resp[w].plan) = 2
        /\ Cardinality(OwnerCompleted(resp[w].plan)) = 1
        /\ ForeignCompleted(resp[w].plan) # {}
        /\ resp[w].value = 5000

\* C2: calculate_progress on a plan without lessons returns 0.0 and leaves 0.0 as the
\* plan's stored progress, whatever was stored before.
C2_ZeroLessonsStoresZero ==
    \A w \in Workers :
        CalcDone(w) /\ CountLessons(resp[w].plan) = 0 =>
            resp[w].value = 0 /\ plans[resp[w].plan].progress = 0

\* C3 (state part): when a toggle has answered, the plan's stored progress is the
\* percentage of the response and is round(100 * K / N, 2) for the marks as they stand,
\* and the flag of the response is the stored flag of the owner's mark.
C3_ResponseMatchesStore ==
    \A w \in Workers :
        ToggleDone(w) =>
            LET r == resp[w]
                p == r.plan
            IN  /\ plans[p].progress = r.progress
                /\ IsRounded(r.progress, Cardinality(OwnerCompleted(p)), CountLessons(p))
                /\ \A i \in MarksOf(plans[p].user, r.lesson_id) :
                       marks[i].is_completed = r.is_completed
                /\ MarksOf(plans[p].user, r.lesson_id) # {}

\* C3 (step part): the write of a toggle stores the opposite of the flag that was read
C3_SaveFlips ==
    \A w \in Workers :
        pc[w] = "tg_save" /\ pc'[w] = "tg_plan" =>
            marks'[loc[w].row].is_completed = ~marks[loc[w].row].is_completed

\* C3: after toggle requests run one at a time the stored progress is
\* round(100 * K / N, 2) for the marks as they stand after the last toggle, and each
\* response carries the flipped completion flag and that percentage.
C3_ToggleKeepsProgress == []C3_ResponseMatchesStore /\ [][C3_SaveFlips]_vars

\* two lessons completed, then one of them toggled back: 50.0
C3_Witness ==
    \E w \in Workers :
        /\ ToggleDone(w)
        /\ ~resp[w].is_completed
        /\ resp[w].progress = 5000
        /\ CountLessons(resp[w].plan) = 2

\* the store of InitSeeded is one that plan generation reaches from the empty store
SeededStore ==
    /\ plans = (1 :> [user |-> "u1", progress |-> 0])
    /\ lessons = (1 :> [plan |-> 1, time_estimate |-> 45])
    /\ marks = << >> /\ streaks = << >>
    /\ nextId.plan = 2 /\ nextId.lesson = 2
    /\ Quiescent /\ nops = 0

\* the store of InitSeededQuiz is one that quiz generation reaches from InitSeeded
SeededQuizStore ==
    /\ quizzes = (1 :> [lesson |-> 1])
    /\ questions = (1 :> [quiz |-> 1, correct_answer |-> "A"])
    /\ attempts = << >> /\ streaks = << >>
    /\ nextId.quiz = 2 /\ nextId.question = 2
    /\ Quiescent /\ nops = 0

Lower(s) ==
    CASE s = "A" -> "a"
      [] s = "B" -> "b"
      [] s = "X" -> "x"
      [] OTHER -> s

EqualIgnoringCase(a, b) == Lower(a) = Lower(b)

SubmitDone(w) == pc[w] = "done" /\ resp[w].op = "submit" /\ resp[w].status = 200

\* the attempt stored by the submission that has just answered
LastAttempt == attempts[nextId.attempt - 1]

\* the questions of quiz q that the answer map answers with the stored label
Matching(q, answers) ==
    {i \in QuestionsOf(q) :
        /\ Key(i) \in DOMAIN answers.map
        /\ EqualIgnoringCase(answers.map[Key(i)], questions[i].correct_answer)}

\* C4: a submission answers totalQuestions = Q, correctCount = C, the number of the
\* quiz's questions whose submitted answer matches the stored label, and score
\* C / Q * 100 (0 when Q = 0); a question without a key is incorrect with an empty
\* submitted answer; keys of no question are ignored.
C4_ScoreIsRatio ==
    \A w \in Workers :
        SubmitDone(w) =>
            LET r == resp[w]
                a == LastAttempt
                Q == Cardinality(QuestionsOf(a.quiz))
                C == IF a.answers.kind # "map" THEN 0
                     ELSE Cardinality(Matching(a.quiz, a.answers))
            IN  /\ r.total_questions = Q
                /\ r.correct_count = C
                /\ Len(r.results) = Q
                /\ IF Q = 0 THEN r.score = 0 /\ a.score.n = 0
                   ELSE IsRounded(r.score, C, Q) /\ a.score.n * Q = 100 * C * a.score.d
                /\ \A k \in 1..Len(r.results) :
                       Key(r.results[k].question_id) \notin DOMAIN a.answers.map =>
                           ~r.results[k].is_correct /\ r.results[k].user_answer = ""

\* two questions, one answered with the stored label, one not answered, and a key of
\* no question
C4_Witness ==
    \E w \in Workers :
        /\ SubmitDone(w)
        /\ resp[w].total_questions = 2
        /\ resp[w].correct_count = 1
        /\ resp[w].score = 5000
        /\ ForeignKey \in DOMAIN LastAttempt.answers.map
        /\ \E k \in 1..2 :
               Key(resp[w].results[k].question_id) \notin DOMAIN LastAttempt.answers.map

\* C5: a submitted answer is marked correct exactly when it equals the question's
\* stored label ignoring letter case.
C5_CorrectIffEqualIgnoringCase ==
    \A w \in Workers :
        SubmitDone(w) /\ LastAttempt.answers.kind = "map" =>
            \A k \in 1..Len(resp[w].results) :
                LET id == resp[w].results[k].question_id
                IN  resp[w].results[k].is_correct =
                        EqualIgnoringCase(Lookup(LastAttempt.answers, Key(id)),
                                          questions[id].correct_answer)

\* a lower-case answer marked correct against the stored label of a question whose
\* label the generation service wrote in lower case
C5_Witness ==
    \E w \in Workers :
        /\ SubmitDone(w)
        /\ \E k \in 1..Len(resp[w].results) :
               /\ resp[w].results[k].is_correct
               /\ Lookup(LastAttempt.answers, Key(resp[w].results[k].question_id)) = "a"
        /\ \E k \in 1..Len(resp[w].results) :
               /\ resp[w].results[k].correct_answer = "B"
               /\ ~resp[w].results[k].is_correct
               /\ Key(resp[w].results[k].question_id) \in DOMAIN LastAttempt.answers.map

\* the three counters of a streak row
Counters(r) == <<r.lessons_completed, r.quizzes_taken, r.notes_created>>

\* the counters of one activity of the kind of handler op
Unit(op) ==
    IF op = "toggle" THEN <<1, 0, 0>> ELSE IF op = "submit" THEN <<0, 1, 0>> ELSE <<0, 0, 1>>

Plus(a, b) == <<a[1] + b[1], a[2] + b[2], a[3] + b[3]>>

\* worker w answers an activity request in this step
ActivityAnswered(w) ==
    /\ pc[w] \in {"st_create", "st_save"}
    /\ pc'[w] = "done"
    /\ resp'[w].status \in {200, 201}

\* C6 (step): the step that ends an activity leaves exactly one row of the pair (user,
\* day read by the handler); its counters are those of one activity of the kind if the
\* pair had no row or a row just inserted by this request, and the stored counters plus
\* one of the kind otherwise; nothing else of the ledger changes.
C6_ActivityStep ==
    \A w \in Workers :
        ActivityAnswered(w) =>
            LET l == loc[w]
                before == StreakOf(l.user, l.date)
                after == {i \in DOMAIN streaks' :
                             streaks'[i].user = l.user /\ streaks'[i].date = l.date}
            IN  /\ Cardinality(after) = 1
                /\ \A i \in after :
                       /\ Counters(streaks'[i]) =
                              IF before = {} THEN Unit(l.op)
                              ELSE Plus(Counters(streaks[i]), Unit(l.op))
                       /\ streaks'[i].total_time_spent =
                              IF before = {} THEN 0 ELSE streaks[i].total_time_spent
                /\ \A i \in DOMAIN streaks \ after : i \in DOMAIN streaks' /\ streaks'[i] = streaks[i]
                /\ DOMAIN streaks' = DOMAIN streaks \cup after

\* C6 (state): the row a completing toggle has just inserted holds no activity yet
C6_FreshToggleRow ==
    \A w \in Workers :
        pc[w] = "st_save" /\ loc[w].op = "toggle" /\ loc[w].rec = NewStreak("toggle", loc[w].user, loc[w].date)
            => /\ loc[w].row \in DOMAIN streaks
               /\ Counters(streaks[loc[w].row]) = <<0, 0, 0>>

\* C6: each activity get-or-creates the row of (user, today): a new row gets 1 in the
\* counter of the activity's kind and 0 in the other two, an existing row gets exactly
\* one more in that counter and keeps the others.
C6_ActivityCountsOnce == []C6_FreshToggleRow /\ [][C6_ActivityStep]_vars

\* a row that holds a completed lesson and a quiz gets a note
C6_Witness ==
    \E i \in DOMAIN streaks :
        /\ Counters(streaks[i]) = <<1, 1, 1>>
        /\ \E w \in Workers : pc[w] = "done" /\ resp[w].op = "note" /\ resp[w].status = 201

\* C7 (step): no row is removed and no counter decreases, and the steps of a toggle to
\* incomplete and of the deletion of a note leave the ledger as it is
C7_LedgerStep ==
    /\ \A i \in DOMAIN streaks :
           /\ i \in DOMAIN streaks'
           /\ \A k \in 1..3 : Counters(streaks'[i])[k] >= Counters(streaks[i])[k]
    /\ \A w \in Workers :
           \/ pc[w] = pc'[w]
           \/ pc[w] \in {"st_create", "st_save"}
           \/ streaks' = streaks
    /\ \A w \in Workers :
           pc'[w] \in {"st_get", "st_create", "st_save"} =>
               /\ loc'[w].op # "note_delete"
               /\ loc'[w].op = "toggle" => loc'[w].out.is_completed

AllAnswered == \A w \in Workers : pc[w] \in {"idle", "done"}

AttemptsBy(u) == {a \in DOMAIN attempts : attempts[a].user = u}

NotesBy(u) == {n \in DOMAIN notes : notes[n].user = u}

\* C8: when N activities of one kind of one user on one day have been handled
\* concurrently and all have answered, the counter of that kind of the row of (user, day)
\* has grown by N: it counts every attempt stored and every note stored that day.
C8_EveryActivityCounted ==
    AllAnswered =>
        \A u \in Users :
            /\ AttemptsBy(u) # {} \/ NotesBy(u) # {} => StreakOf(u, today) # {}
            /\ \A i \in StreakOf(u, today) :
                   /\ streaks[i].quizzes_taken = Cardinality(AttemptsBy(u))
                   /\ streaks[i].notes_created = Cardinality(NotesBy(u))

\* C9 (state): no pair (user, date) has two rows
C9_OneRow == \A i, j \in DOMAIN streaks :
    streaks[i].user = streaks[j].user /\ streaks[i].date = streaks[j].date => i = j

\* C9 (step): a handler whose insert was refused loads the row of the pair and goes on
\* to the increment of that row
C9_LoserUpdates ==
    \A w \in Workers :
        pc[w] = "st_reget" /\ pc'[w] # "st_reget" =>
            /\ pc'[w] = "st_save"
            /\ loc'[w].row \in StreakOf(loc[w].user, loc[w].date)
            /\ loc'[w].rec = streaks[loc'[w].row]
            /\ streaks' = streaks

\* C9: under any interleaving of concurrent activities at most one streak row exists
\* for a (user, date) pair; the creation that loses the race proceeds as an update of the
\* existing row.
C9_OneStreakRowPerUserDay == []C9_OneRow /\ [][C9_LoserUpdates]_vars

\* a handler has lost the race for the row of its user and day, and has answered after
\* the increment of the row of the winner
C9_Witness ==
    \E w \in Workers :
        /\ pc[w] = "done" /\ resp[w].status \in {200, 201}
        /\ \E v \in Workers \ {w} : pc[v] = "done" /\ resp[v].status \in {200, 201}
        /\ streaks # << >>
        /\ \A i \in DOMAIN streaks :
               streaks[i].lessons_completed + streaks[i].quizzes_taken
                   + streaks[i].notes_created = 2
        /\ nops = 2

\* C10: at most one mark exists for a (user, lesson) pair, also when two first toggles
\* of the pair are handled concurrently.
C10_OneMarkPerUserLesson ==
    \A u \in Users, lid \in DOMAIN lessons : Cardinality(MarksOf(u, lid)) <= 1

\* C11: when two toggles of different lessons of one plan have run concurrently and
\* both have answered, the stored progress of the plan is round(100 * K / N, 2) for the
\* marks then stored.
C11_ConcurrentTogglesKeepProgress ==
    \A w, v \in Workers :
        /\ ToggleDone(w) /\ ToggleDone(v)
        /\ resp[w].plan = resp[v].plan
        /\ resp[w].lesson_id # resp[v].lesson_id
        => LET p == resp[w].plan
           IN  IsRounded(plans[p].progress, Cardinality(OwnerCompleted(p)), CountLessons(p))

\* worker w has answered a request for the streak statistics
StatsDone(w) == pc[w] = "done" /\ resp[w].op = "stats" /\ resp[w].status = 200

\* C12: for a user with rows, currentStreak is the number of consecutive days, back
\* from today, that have a row, up to the first day without one: 0 if today has no row, 3
\* for rows on today, today-1, today-2 and none on today-3, and never more than 365.
C12_CurrentStreakIsRunFromToday ==
    \A w \in Workers :
        StatsDone(w) /\ DatesOf(resp[w].user) # {} =>
            LET D == DatesOf(resp[w].user)
                k == resp[w].current_streak
            IN  /\ k \in 0..365
                /\ \A j \in 0..(k - 1) : today - j \in D
                /\ k = 365 \/ today - k \notin D
                /\ today \notin D => k = 0
                /\ {today, today - 1, today - 2} \subseteq D /\ today - 3 \notin D => k = 3

\* the rows of today and of the two days before, and no row three days ago, give 3
C12_Witness ==
    \E w \in Workers :
        /\ StatsDone(w)
        /\ {today, today - 1, today - 2} \subseteq DatesOf(resp[w].user)
        /\ today - 3 \notin DatesOf(resp[w].user)
        /\ resp[w].current_streak = 3

\* the latest row of the user that was answered is dated yesterday
LatestYesterday(w) ==
    /\ StatsDone(w)
    /\ today - 1 \in DatesOf(resp[w].user)
    /\ \A d \in DatesOf(resp[w].user) : d <= today - 1

\* C13 (as stated): a user whose latest row is dated yesterday gets currentStreak 0 and
\* streakStatus "active_yesterday".
C13_YesterdayIsActiveYesterday ==
    \A w \in Workers :
        LatestYesterday(w) =>
            resp[w].current_streak = 0 /\ resp[w].streak_status = "active_yesterday"

\* C13 (amended): a user whose latest row is dated yesterday gets currentStreak 0 and
\* streakStatus "inactive".
C13_YesterdayIsInactive ==
    \A w \in Workers :
        LatestYesterday(w) =>
            resp[w].current_streak = 0 /\ resp[w].streak_status = "inactive"

\* a user with rows yesterday and the day before, and none today, has been answered
C13_Witness ==
    \E w \in Workers :
        /\ LatestYesterday(w)
        /\ today - 2 \in DatesOf(resp[w].user)
        /\ resp[w].streak_status = "inactive"

\* C14: for a user with rows, streakStatus is "active_today" if today has a row,
\* otherwise "active_yesterday" if yesterday has a row and currentStreak > 0, otherwise
\* "active" if currentStreak > 0, otherwise "inactive".
C14_StatusByLastActivity ==
    \A w \in Workers :
        StatsDone(w) /\ DatesOf(resp[w].user) # {} =>
            LET D == DatesOf(resp[w].user)
                k == resp[w].current_streak
            IN  resp[w].streak_status =
                    IF today \in D THEN "active_today"
                    ELSE IF today - 1 \in D /\ k > 0 THEN "active_yesterday"
                    ELSE IF k > 0 THEN "active"
                    ELSE "inactive"

\* a user with rows today and yesterday is answered "active_today"
C14_Witness ==
    \E w \in Workers :
        /\ StatsDone(w)
        /\ {today, today - 1} \subseteq DatesOf(resp[w].user)
        /\ resp[w].streak_status = "active_today"
        /\ resp[w].current_streak >= 2

\* the length of the run of consecutive dates of D that ends at date d
RunEndingAt(D, d) ==
    CHOOSE n \in 1..Cardinality(D) :
        /\ \A j \in 0..(n - 1) : d - j \in D
        /\ d - n \notin D

\* the length of the longest run of consecutive dates of D
LongestRun(D) ==
    LET ends == {d \in D : d + 1 \notin D}
        lens == {RunEndingAt(D, d) : d \in ends}
    IN  CHOOSE n \in lens : \A m \in lens : n >= m

\* C15: for a user with rows, longestStreak is the larger of currentStreak and the
\* length of the longest run of consecutive dates among the user's rows; it is at least
\* currentStreak and at least 1.
C15_LongestIsMaxOfRuns ==
    \A w \in Workers :
        StatsDone(w) /\ DatesOf(resp[w].user) # {} =>
            /\ resp[w].longest_streak =
                   Max(resp[w].current_streak, LongestRun(DatesOf(resp[w].user)))
            /\ resp[w].longest_streak >= resp[w].current_streak
            /\ resp[w].longest_streak >= 1

\* the longest run of the user is an old one: longer than the current streak, and
\* followed by a later row
C15_Witness ==
    \E w \in Workers :
        /\ StatsDone(w)
        /\ resp[w].longest_streak = 2
        /\ resp[w].current_streak = 1
        /\ {today, today - 2, today - 3} \subseteq DatesOf(resp[w].user)

\* the calendar of the answer of worker w: 365 entries, one per day from today-364 to
\* today in ascending order, with zeros on the days without a row of the user
FullCalendar(w) ==
    LET cal == resp[w].activity_calendar
        D == DatesOf(resp[w].user)
    IN  /\ Len(cal) = 365
        /\ \A i \in 1..Len(cal) :
               /\ cal[i].date = today - 364 + (i - 1)
               /\ cal[i].date \notin D =>
                      /\ cal[i].count = 0 /\ cal[i].lessons = 0
                      /\ cal[i].quizzes = 0 /\ cal[i].notes = 0

\* C16 (as stated): for every user and every ledger the activity calendar of the
\* statistics has exactly 365 entries, one per date from today-364 to today in
\* ascending order, and the entry of a date without a row has score and counters 0.
C16_CalendarAlwaysFull == \A w \in Workers : StatsDone(w) => FullCalendar(w)

\* C16 (amended): the same for every user with at least one row.
C16_CalendarFullForActiveUser ==
    \A w \in Workers : StatsDone(w) /\ DatesOf(resp[w].user) # {} => FullCalendar(w)

\* a user whose only rows are on the oldest day of the calendar and today is answered
C16_Witness ==
    \E w \in Workers :
        /\ StatsDone(w)
        /\ DatesOf(resp[w].user) = {today - 364, today}
        /\ resp[w].activity_calendar[1].count > 0
        /\ resp[w].activity_calendar[2].count = 0
        /\ resp[w].activity_calendar[365].count > 0

\* C17: a user without rows gets currentStreak 0, longestStreak 0, totalActiveDays 0,
\* an empty calendar and streakStatus "inactive".
C17_NoRowsNoStats ==
    \A w \in Workers :
        StatsDone(w) /\ DatesOf(resp[w].user) = {} =>
            /\ resp[w].current_streak = 0
            /\ resp[w].longest_streak = 0
            /\ resp[w].total_active_days = 0
            /\ resp[w].activity_calendar = << >>
            /\ resp[w].streak_status = "inactive"

\* a user without rows is answered while another user has a row today
C17_Witness ==
    \E w \in Workers :
        /\ StatsDone(w)
        /\ DatesOf(resp[w].user) = {}
        /\ \E i \in DOMAIN streaks : streaks[i].date = today

\* C18 (step): the write of a toggle stores the lesson's estimate as the minutes if it
\* completes a mark of 0 minutes, and the minutes that were stored otherwise
C18_SaveStep ==
    \A w \in Workers :
        pc[w] = "tg_save" /\ pc'[w] = "tg_plan" =>
            LET i == loc[w].row
                old == marks[i]
                new == marks'[i]
            IN  /\ new.is_completed /\ old.time_spent = 0 =>
                       new.time_spent = lessons[old.lesson].time_estimate
                /\ new.is_completed /\ old.time_spent # 0 => new.time_spent = old.time_spent
                /\ ~new.is_completed => new.time_spent = old.time_spent

\* C18: a toggle to completed of a mark of 0 minutes sets the minutes to the lesson's
\* time estimate in the row it persists; non-zero minutes are left unchanged, and a
\* toggle to incomplete never changes the minutes.
C18_MinutesSetOnce == [][C18_SaveStep]_vars

\* a toggle has completed a mark whose minutes an administrator had set to 30, on a
\* lesson of 45 minutes
C18_Witness ==
    \E w \in Workers :
        /\ ToggleDone(w) /\ resp[w].is_completed
        /\ \E i \in DOMAIN marks :
               /\ marks[i].lesson = resp[w].lesson_id
               /\ marks[i].is_completed
               /\ marks[i].time_spent = 30
               /\ lessons[marks[i].lesson].time_estimate = 45

\* the step of worker w that stores the attempt of a submission adds exactly one row,
\* which holds the submitted answers, and leaves the earlier rows as they were
OneNewAttempt(w) ==
    pc[w] = "sq_attempt" /\ pc'[w] # "sq_attempt" =>
        /\ DOMAIN attempts' = DOMAIN attempts \cup {nextId.attempt}
        /\ nextId.attempt \notin DOMAIN attempts
        /\ attempts'[nextId.attempt].answers = loc[w].answers
        /\ attempts'[nextId.attempt].user = loc[w].user
        /\ attempts'[nextId.attempt].quiz = loc[w].quiz
        /\ \A a \in DOMAIN attempts : attempts'[a] = attempts[a]

\* only the step that stores the attempt of a submission changes the attempts
OnlySubmissionsStore ==
    attempts' # attempts => \E w \in Workers : pc[w] = "sq_attempt" /\ pc'[w] = "st_get"

\* C19 (state, as stated): the stored score of the attempt of the submission that has
\* answered is the score of the response, which is rounded to 2 decimals
C19_StoredIsResponseScore ==
    \A w \in Workers :
        SubmitDone(w) => LastAttempt.score.n * 100 = resp[w].score * LastAttempt.score.d

\* C19 (as stated): every accepted submission persists exactly one new attempt holding
\* the raw submitted answer map and the score rounded to 2 decimals, the same value as the
\* score of the response, and leaves every earlier attempt unchanged.
C19_AttemptHoldsRoundedScore ==
    /\ []C19_StoredIsResponseScore
    /\ [][OnlySubmissionsStore /\ \A w \in Workers : OneNewAttempt(w)]_vars

\* C19 (state, amended): the stored score of the attempt of the submission that has
\* answered is correct_count / total_questions * 100 unrounded, and the score of the
\* response is that value rounded to 2 decimals
C19_StoredIsExactScore ==
    \A w \in Workers :
        SubmitDone(w) =>
            LET a == LastAttempt
                r == resp[w]
            IN  /\ a.score.n * r.total_questions = 100 * r.correct_count * a.score.d
                /\ IsRounded(r.score, a.score.n, 100 * a.score.d)

\* C19 (amended): every accepted submission persists exactly one new attempt holding the
\* raw submitted answer map and the unrounded score, whose rounding to 2 decimals is the
\* score of the response, and leaves every earlier attempt unchanged.
C19_AttemptHoldsExactScore ==
    /\ []C19_StoredIsExactScore
    /\ [][OnlySubmissionsStore /\ \A w \in Workers : OneNewAttempt(w)]_vars

\* a second submission, with 2 of 3 answers correct: answered 66.67, stored 200/3
C19_Witness ==
    \E w \in Workers :
        /\ SubmitDone(w)
        /\ resp[w].correct_count = 2 /\ resp[w].total_questions = 3
        /\ resp[w].score = 6667
        /\ LastAttempt.score = [n |-> 200, d |-> 3]
        /\ Cardinality(DOMAIN attempts) = 2

\* lesson lid does not exist or belongs to a plan of another user than u
NotOwnLesson(u, lid) == lid \notin DOMAIN lessons \/ plans[lessons[lid].plan].user # u

\* quiz q does not exist or belongs to a lesson of a plan of another user than u
NotOwnQuiz(u, q) == q \notin DOMAIN quizzes \/ NotOwnLesson(u, quizzes[q].lesson)

\* C20 (step): the first step of a toggle for a lesson, or of a submission for a quiz,
\* that does not exist or is not the requester's answers 404 and changes no record
C20_DeclinedStep ==
    \A w \in Workers, u \in Users :
        /\ \A lid \in 1..nextId.lesson :
               NotOwnLesson(u, lid) /\ Toggle_GetLesson(w, u, lid) =>
                   /\ pc'[w] = "done"
                   /\ resp'[w] = [op |-> "toggle", status |-> 404]
                   /\ UNCHANGED db
        /\ \A q \in 1..nextId.quiz, payload \in FewPayloads :
               NotOwnQuiz(u, q) /\ Submit_GetQuiz(w, u, q, payload) =>
                   /\ pc'[w] = "done"
                   /\ resp'[w] = [op |-> "submit", status |-> 404]
                   /\ UNCHANGED db

\* C20 (state): a handler that is past its first step works on a lesson or a quiz of
\* its requester
C20_OnlyOwnersProceed ==
    \A w \in Workers :
        /\ pc[w] \in {"tg_get", "tg_create", "tg_save", "tg_plan"} =>
               ~NotOwnLesson(loc[w].user, loc[w].lesson)
        /\ pc[w] \in {"sq_count", "sq_grade", "sq_attempt"} =>
               ~NotOwnQuiz(loc[w].user, loc[w].quiz)

\* C20: a toggle for a lesson, or a submission for a quiz, that does not exist or does
\* not belong to a plan of the requester gets the same NotFound answer in both cases and
\* changes no mark, plan, attempt or streak row.
C20_ForeignIsNotFound == []C20_OnlyOwnersProceed /\ [][C20_DeclinedStep]_vars

\* a submission has been answered NotFound after the owner has completed the lesson,
\* and the store holds the owner's mark and streak row only
C20_Witness ==
    \E w \in Workers :
        /\ pc[w] = "done"
        /\ resp[w] = [op |-> "submit", status |-> 404]
        /\ \E i \in DOMAIN marks : marks[i].is_completed
        /\ \A i \in DOMAIN marks : marks[i].user = "u1"
        /\ \A i \in DOMAIN streaks : streaks[i].user = "u1"
        /\ attempts = << >>

\* C21 (state): every stored note is on a lesson of a plan of its user
C21_NotesOnOwnLessons ==
    \A n \in DOMAIN notes : ~NotOwnLesson(notes[n].user, notes[n].lesson)

\* C21 (step): the create-note request with a valid body for a lesson that does not
\* exist or is not the requester's answers 404 and changes no record
C21_DeclinedStep ==
    \A w \in Workers, u \in Users, lid \in 1..nextId.lesson :
        NotOwnLesson(u, lid) /\ Note_Create(w, u, lid, TRUE) =>
            /\ pc'[w] = "done"
            /\ resp'[w] = [op |-> "note", status |-> 404]
            /\ UNCHANGED db

\* C21: a create-note request for a lesson that does not exist or does not belong to a
\* plan of the requester is declined as NotFound: no note is stored and no streak counter
\* of the requester changes.
C21_ForeignNoteIsNotFound == []C21_NotesOnOwnLessons /\ [][C21_DeclinedStep]_vars

\* C22 (state): no stored attempt holds answers that are not a mapping, and no
\* submission is answered with a server error
C22_NoMalformedAttempt ==
    /\ \A a \in DOMAIN attempts : attempts[a].answers.kind = "map"
    /\ \A w \in Workers : pc[w] = "done" /\ resp[w].op = "submit" => resp[w].status # 500

\* C22 (step): the submission to a quiz of the requester whose answers are missing or
\* are not a mapping answers 400 and changes no record
C22_DeclinedStep ==
    \A w \in Workers, u \in Users, q \in 1..nextId.quiz, payload \in {Missing, NotAMap} :
        ~NotOwnQuiz(u, q) /\ Submit_GetQuiz(w, u, q, payload) =>
            /\ pc'[w] = "done"
            /\ resp'[w] = [op |-> "submit", status |-> 400]
            /\ UNCHANGED db

\* C22: a submission whose answers value is missing or is not a mapping is declined as
\* ValidationFailure, and it creates no attempt and creates or changes no streak row, for
\* every quiz including one without questions.
C22_MalformedAnswersDeclined == []C22_NoMalformedAttempt /\ [][C22_DeclinedStep]_vars

\* the plan generation of worker w ends in failure and nothing of it is stored
C23_PlanFailureStoresNothing(w) ==
    pc[w] = "gp_lesson" /\ pc'[w] = "done" /\ resp'[w].status = 500 =>
        /\ loc[w].plan \notin DOMAIN plans'
        /\ \A i \in DOMAIN lessons' : lessons'[i].plan # loc[w].plan

\* the quiz generation of worker w ends in failure and nothing of it is stored
C23_QuizFailureStoresNothing(w) ==
    pc[w] = "gq_question" /\ pc'[w] = "done" /\ resp'[w].status = 500 =>
        /\ loc[w].quiz \notin DOMAIN quizzes'
        /\ \A i \in DOMAIN questions' : questions'[i].quiz # loc[w].quiz

\* C23: plan creation and quiz creation are all-or-nothing: when a generation
\* request fails at any point, the plan or quiz it was building and every lesson or
\* question row of it are absent from the store after the request
C23_GenerationAllOrNothing ==
    [][\A w \in Workers : C23_PlanFailureStoresNothing(w)
                          /\ C23_QuizFailureStoresNothing(w)]_vars

\* worker w holds the answer of the analytics view
AnalyticsDone(w) == pc[w] = "done" /\ resp[w].op = "analytics" /\ resp[w].status = 200

\* the lessons of the plans that user u owns
OwnLessons(u) ==
    {i \in DOMAIN lessons : \E p \in DOMAIN plans : plans[p].user = u /\ lessons[i].plan = p}

\* the marks of user u that are completed
DoneMarks(u) == {m \in DOMAIN marks : marks[m].user = u /\ marks[m].is_completed = TRUE}

\* C24: the analytics report totalLessons = the number of lessons in the plans the user
\* owns, completedLessons = the number of the user's marks that are completed,
\* completionRate = completedLessons / totalLessons * 100 rounded to two decimals and 0
\* when the user has no lessons, and averageQuizScore = 0 when the user has no attempts
C24_AnalyticsCounts ==
    \A w \in Workers :
        AnalyticsDone(w) =>
            LET u == resp[w].user
                total == Cardinality(OwnLessons(u))
                completed == Cardinality(DoneMarks(u))
            IN  /\ resp[w].total_lessons = total
                /\ resp[w].completed_lessons = completed
                /\ total > 0 => IsRounded(resp[w].completion_rate, completed, total)
                /\ total = 0 => resp[w].completion_rate = 0
                /\ AttemptsBy(u) = {} => resp[w].average_quiz_score = 0

\* C24 witness: the analytics of a user who has completed one of three lessons report a
\* rate of 33.33, and the analytics of a user without lessons and attempts report 0
C24_Witness ==
    \E w, v \in Workers :
        /\ AnalyticsDone(w) /\ resp[w].total_lessons = 3
        /\ resp[w].completed_lessons = 1 /\ resp[w].completion_rate = 3333
        /\ AnalyticsDone(v) /\ resp[v].total_lessons = 0
        /\ resp[v].completion_rate = 0 /\ resp[v].average_quiz_score = 0

\* worker w holds the answer of one of the two read-only views
ReadDone(w) == pc[w] = "done" /\ resp[w].op \in {"analytics", "stats"}

\* a step that answers a fetch of analytics or of streak statistics leaves every record
\* as it was
C25_FetchWritesNothing ==
    \A w \in Workers :
        pc[w] = "idle" /\ pc'[w] = "done" /\ resp'[w].op \in {"analytics", "stats"} =>
            UNCHANGED <<plans, lessons, marks, quizzes, questions, attempts, notes, streaks>>

\* a fetch answered while the answer of another fetch of the same view for the same user
\* is still held (nothing was written and the date did not change in between) gives
\* the same answer
C25_SecondFetchSame ==
    \A w, v \in Workers :
        /\ w # v /\ ReadDone(v)
        /\ pc[w] = "idle" /\ pc'[w] = "done"
        /\ resp'[w].op = resp[v].op /\ resp'[w].user = resp[v].user
        => resp'[w] = resp[v]

\* C25: fetching analytics and fetching streak stats are read-only: they leave every plan
\* (with its stored progress), mark, attempt, note and streak row unchanged, and two
\* fetches with no mutation and no date change in between return the same result
C25_FetchesAreReadOnly == [][C25_FetchWritesNothing /\ C25_SecondFetchSame]_vars

\* C25 witness: both workers hold the same analytics of one user, fetched one after the
\* other, that report a completed lesson and a stored progress above 0
C25_Witness ==
    /\ ReadDone(1) /\ ReadDone(2) /\ resp[1] = resp[2]
    /\ resp[1].op = "analytics"
    /\ resp[1].completed_lessons = 1
    /\ \E p \in DOMAIN resp[1].plans_progress : resp[1].plans_progress[p].progress > 0

\* the call of worker 2 on the plan of the held answer of worker 1 returns
SecondCallReturns ==
    /\ CalcDone(1)
    /\ pc[2] \in {"cp_total", "cp_save"} /\ pc'[2] = "done"
    /\ loc[2].op = "calc" /\ loc[2].plan = resp[1].plan

\* C26: calculate_progress called twice in a row on the same plan, with no change of
\* lessons or marks in between, returns the same value both times and leaves the stored
\* progress after the second call as it was after the first
C26_RecomputeIsIdempotent ==
    [][SecondCallReturns =>
           /\ resp'[2].value = resp[1].value
           /\ plans'[resp[1].plan].progress = plans[resp[1].plan].progress]_vars

\* C26 witness: two calls in a row on a plan of two lessons, one of them completed, have
\* both returned 50.0, which is also the stored progress
C26_Witness ==
    /\ CalcDone(1) /\ CalcDone(2)
    /\ resp[1].plan = resp[2].plan
    /\ resp[1].value = 5000 /\ resp[2].value = 5000
    /\ plans[resp[1].plan].progress = 5000

\* the completed marks of the owner of plan p on the lessons of p
OwnerCompletedMarks(p) ==
    {m \in DOMAIN marks :
        /\ \E l \in DOMAIN lessons : lessons[l].plan = p /\ marks[m].lesson = l
        /\ marks[m].user = plans[p].user
        /\ marks[m].is_completed}

\* C27: in every reachable state, also after concurrent toggles of one lesson, every
\* stored progress and the progress of every toggle response is between 0.0 and 100.0,
\* and the completed marks of a plan's owner are never more than the plan's lessons
C27_ProgressWithinRange ==
    /\ \A p \in DOMAIN plans :
           /\ plans[p].progress >= 0 /\ plans[p].progress <= 10000
           /\ Cardinality(OwnerCompletedMarks(p)) <= CountLessons(p)
    /\ \A w \in Workers :
           ToggleDone(w) => resp[w].progress >= 0 /\ resp[w].progress <= 10000

\* every mark has a completion timestamp exactly when it is completed
C28_TimestampIffCompleted ==
    \A m \in DOMAIN marks : (marks[m].completed_at # 0) <=> marks[m].is_completed

\* the save of a toggle flips the flag of its mark, stamps the current day on a mark it
\* completes and clears the timestamp of a mark it reopens
C28_SaveStep ==
    \A w \in Workers :
        pc[w] = "tg_save" /\ pc'[w] = "tg_plan" =>
            LET m == loc[w].row
            IN  /\ marks'[m].is_completed = ~marks[m].is_completed
                /\ marks'[m].completed_at = IF marks'[m].is_completed THEN today ELSE 0

\* C28: for marks changed only by toggles, the completion timestamp is non-null exactly
\* when the completion flag is true: a toggle to completed sets the timestamp to the
\* current time and a toggle to incomplete clears it
C28_TimestampFollowsFlag == []C28_TimestampIffCompleted /\ [][C28_SaveStep]_vars

\* C28 witness: a toggle has reopened a mark that was completed before (its minutes are
\* recorded) and the mark has no timestamp, on the day after the plan was made
C28_Witness ==
    \E w \in Workers :
        /\ ToggleDone(w) /\ ~resp[w].is_completed
        /\ today = 2
        /\ \E m \in DOMAIN marks :
               /\ marks[m].lesson = resp[w].lesson_id
               /\ marks[m].time_spent = 45 /\ marks[m].completed_at = 0

\* C29: no request writes minutes to a streak row: in every state reached through
\* toggles, quiz submissions and note creations, total_time_spent of every streak row is
\* 0, whatever minutes were recorded on the lessons completed that day
C29_StreakMinutesStayZero ==
    \A i \in DOMAIN streaks : streaks[i].total_time_spent = 0

\* C29 witness: a streak row counts a completed lesson, a quiz and a note of a user whose
\* mark, completed on the day of the row, records 45 minutes, and the row holds 0 minutes
C29_Witness ==
    \E i \in DOMAIN streaks :
        /\ streaks[i].lessons_completed >= 1
        /\ streaks[i].quizzes_taken + streaks[i].notes_created >= 1
        /\ streaks[i].total_time_spent = 0
        /\ \E m \in DOMAIN marks :
               /\ marks[m].user = streaks[i].user /\ marks[m].is_completed
               /\ marks[m].completed_at = streaks[i].date /\ marks[m].time_spent = 45

\* C30: as long as no streak row is dated after today, the streak statistics return
\* "active_today" exactly when currentStreak > 0 and "inactive" exactly when
\* currentStreak = 0, and never "active_yesterday" or "active"
C30_StatusFollowsCurrentStreak ==
    \A w \in Workers :
        StatsDone(w) /\ (\A i \in DOMAIN streaks : streaks[i].date <= today) =>
            /\ (resp[w].streak_status = "active_today") <=> (resp[w].current_streak > 0)
            /\ (resp[w].streak_status = "inactive") <=> (resp[w].current_streak = 0)
            /\ resp[w].streak_status \notin {"active_yesterday", "active"}

\* C30 witness: a user with a row today and none yesterday, and with rows two and three
\* days ago, is answered "active_today" with a current streak of 1
C30_Witness ==
    \E w \in Workers :
        /\ StatsDone(w)
        /\ today \in DatesOf(resp[w].user) /\ today - 1 \notin DatesOf(resp[w].user)
        /\ {today - 2, today - 3} \subseteq DatesOf(resp[w].user)
        /\ resp[w].streak_status = "active_today" /\ resp[w].current_streak = 1

====
